---------------------------- MODULE Spec2Model ----------------------------
(***************************************************************************)
(* Model of src/thingspeak_dashboard.py: one run of main(), that is one    *)
(* rerun of the Streamlit script.  The Home page calls fetch_data() (one   *)
(* HTTP GET to ThingSpeak, normalisation into a DataFrame, sort by         *)
(* created_at) and then derives the metrics, the data range and the        *)
(* temperature extremes from the DataFrame.                                *)
(*                                                                         *)
(* Encoding of values                                                      *)
(*   a raw JSON field value is a string: a numeric string ("5", "9"), a    *)
(*   malformed string ("x"), JSON null (NULL) or a key the entry does not  *)
(*   carry (ABSENT);                                                       *)
(*   a raw created_at is <<day, hour>> for a well-formed ISO-8601 string   *)
(*   and <<>> for a string pandas cannot parse;                            *)
(*   a float64 cell is <<n>> for the number n and <<>> for NaN;            *)
(*   a timestamp is a number of hours.                                     *)
(***************************************************************************)
EXTENDS Integers, Sequences, FiniteSets, TLC

VARIABLES
    pc,        \* position of main(): menu, fetch, branch, col1, col2, range,
               \* extremes1, extremes2, static, done, crashed
    selected,  \* the page option_menu returned (line 99)
    response,  \* what requests.get met (line 22)
    getCount,  \* number of HTTP GETs issued so far
    df,        \* the DataFrame fetch_data returned (line 117)
    notices,   \* the st.error notices fetch_data emitted (lines 37, 40, 43)
    stats,     \* the statistics main has computed so far, by name
    rendered,  \* the widgets main has drawn so far
    fault      \* the exception that left main(), or "none"

vars == <<pc, selected, response, getCount, df, notices, stats, rendered, fault>>

----------------------------------------------------------------------------
(* Bounds of the model *)

MaxLen == 2

----------------------------------------------------------------------------
(* Inputs *)

NULL == "null"
ABSENT == "absent"
NaN == <<>>
BadTime == <<>>

Pages == {"Home", "Setup", "Code", "Contact"}

RawVals == {"5", "9", "x", NULL, ABSENT}

RawTimes == {<<1, 0>>, <<2, 12>>, BadTime}

Entries == [created_at : RawTimes, field1 : RawVals, field2 : RawVals]

\* The entries of a channel that defines the fields K: ThingSpeak gives every
\* entry of a feed the keys of the channel's fields, and no others.
EntriesOf(K) ==
    {e \in Entries : \A f \in {"field1", "field2"} : (e[f] = ABSENT) <=> (f \notin K)}

Feeds ==
    UNION {[1..n -> EntriesOf(K)] : n \in 0..MaxLen, K \in SUBSET {"field1", "field2"}}

Statuses == {200, 304, 404, 500}

NoBody == [kind |-> "unread", hasFeeds |-> FALSE, feeds |-> <<>>]

\* The bodies response.json() can meet: not JSON at all, a JSON value that is
\* not an object, an object without "feeds", an object with a "feeds" array.
Bodies ==
    {[kind |-> k, hasFeeds |-> FALSE, feeds |-> <<>>] : k \in {"notjson", "nonobject", "object"}}
    \cup {[kind |-> "object", hasFeeds |-> TRUE, feeds |-> f] : f \in Feeds}

NoResponse == [error |-> FALSE, status |-> 0, body |-> NoBody]


\* Variant: only the 5xx answers raise.
RaisesForStatus_ServerOnly(status) == status >= 500 /\ status < 600

RaisesForStatus(status) == status >= 400 /\ status < 600

\* A transport failure has no status and no body; the body of a 4xx/5xx answer
\* is never read (line 23 raises before line 24).
Responses ==
    {[error |-> TRUE, status |-> 0, body |-> NoBody]}
    \cup {[error |-> FALSE, status |-> s, body |-> NoBody] : s \in {s \in Statuses : RaisesForStatus(s)}}
    \cup {[error |-> FALSE, status |-> s, body |-> b] :
            s \in {s \in Statuses : ~RaisesForStatus(s)}, b \in Bodies}


----------------------------------------------------------------------------
(* fetch_data, lines 19-44 *)

FetchFailureSignal == "Error fetching data from ThingSpeak"
SchemaFailureSignal == "Error processing ThingSpeak data"
UnexpectedSignal == "An unexpected error occurred"

\* The exception classes that derive from requests.exceptions.RequestException.
RequestExceptions == {"ConnectionError", "HTTPError", "RequestsJSONDecodeError"}


\* Variant: a failed GET is tried a second time.
HttpGets_Retry(r) == IF r.error \/ r.status >= 500 THEN 2 ELSE 1

\* requests.get(url), line 22: one GET, no retry adapter is mounted.
HttpGets(r) == 1

\* pd.DataFrame(list of dicts), line 26: the columns are the union of the keys
\* of the entries; an empty list gives a frame with no columns at all.
Columns(feeds) ==
    (IF Len(feeds) > 0 THEN {"created_at"} ELSE {})
    \cup {c \in {"field1", "field2"} : \E i \in 1..Len(feeds) : feeds[i][c] # ABSENT}

\* pd.to_datetime(..., utc=True), line 27: hours since the epoch of a
\* well-formed string (errors='raise' is the default for the others).
ToDatetime(raw) == raw[1] * 24 + raw[2]

TZ_OFFSET == -3

\* pd.to_numeric(..., errors='coerce'), lines 29-30.
ToNumeric(raw) ==
    CASE raw = "5" -> <<5>>
      [] raw = "9" -> <<9>>
      [] OTHER -> NaN

\* Lines 26-30 on one feed entry.
Normalise(e) ==
    [created_at |-> ToDatetime(e.created_at) + TZ_OFFSET,
     field1 |-> ToNumeric(e.field1),
     field2 |-> ToNumeric(e.field2)]

Orderings(n) == {p \in [1..n -> 1..n] : \A i, j \in 1..n : i # j => p[i] # p[j]}

IsSorted(rows) ==
    \A i \in 1..(Len(rows) - 1) : rows[i].created_at <= rows[i + 1].created_at


\* Variant: the frame is returned in feed order.
SortValues_FeedOrder(rows) == {rows}

\* df.sort_values('created_at'), line 33: ascending; the default kind is
\* quicksort, which is not stable, so rows of equal created_at may come out in
\* any order.
SortValues(rows) ==
    {s \in {[i \in 1..Len(rows) |-> rows[p[i]]] : p \in Orderings(Len(rows))} :
        IsSorted(s)}

\* The exceptions the try block (lines 21-35) can raise on response r, or
\* "none".  Under requests >= 2.27 response.json() raises a RequestException
\* subclass on a body that is not JSON, before that a plain ValueError.
Raised(r) ==
    IF r.error THEN {"ConnectionError"}                              \* line 22
    ELSE IF RaisesForStatus(r.status) THEN {"HTTPError"}             \* line 23
    ELSE IF r.body.kind = "notjson"
         THEN {"RequestsJSONDecodeError", "ValueError"}              \* line 24
    ELSE IF r.body.kind = "nonobject" THEN {"TypeError"}             \* line 26
    ELSE IF ~r.body.hasFeeds THEN {"KeyError"}                       \* line 26
    ELSE IF "created_at" \notin Columns(r.body.feeds) THEN {"KeyError"}  \* line 27
    ELSE IF \E i \in 1..Len(r.body.feeds) : r.body.feeds[i].created_at = BadTime
         THEN {"ValueError"}                                         \* line 27
    ELSE IF "field1" \notin Columns(r.body.feeds) THEN {"KeyError"}  \* line 29
    ELSE IF "field2" \notin Columns(r.body.feeds) THEN {"KeyError"}  \* line 30
    ELSE {"none"}

\* Variant: a single catch-all clause, as in the sample shown on the Code page
\* (lines 197-199).
ExceptHandler_CatchAll(exc) == UnexpectedSignal

\* The except clauses, lines 36-44, in order.
ExceptHandler(exc) ==
    IF exc \in RequestExceptions THEN FetchFailureSignal
    ELSE IF exc = "KeyError" THEN SchemaFailureSignal
    ELSE UnexpectedSignal

Init ==
    /\ pc = "menu"
    /\ selected = "none"
    /\ response = NoResponse
    /\ getCount = 0
    /\ df = <<>>
    /\ notices = <<>>
    /\ stats = <<>>
    /\ rendered = {}
    /\ fault = "none"

\* Lines 95-113: the sidebar menu returns the page to show.
Menu ==
    /\ pc = "menu"
    /\ \E s \in Pages :
        /\ selected' = s
        /\ pc' = IF s = "Home" THEN "fetch" ELSE "static"
    /\ UNCHANGED <<response, getCount, df, notices, stats, rendered, fault>>

\* Lines 170-244: the Setup, Code and Contact pages draw static content.
RenderStatic ==
    /\ pc = "static"
    /\ rendered' = {<<"page", selected>>}
    /\ pc' = "done"
    /\ UNCHANGED <<selected, response, getCount, df, notices, stats, fault>>

\* Line 117: df = fetch_data(), the whole of lines 19-44.
FetchData ==
    /\ pc = "fetch"
    /\ \E r \in Responses :
        /\ response' = r
        /\ getCount' = getCount + HttpGets(r)
        /\ \E exc \in Raised(r) :
            IF exc = "none"
            THEN /\ \E s \in SortValues([i \in 1..Len(r.body.feeds) |-> Normalise(r.body.feeds[i])]) :
                        df' = s
                 /\ notices' = notices
            ELSE /\ df' = <<>>
                 /\ notices' = Append(notices, ExceptHandler(exc))
    /\ pc' = "branch"
    /\ UNCHANGED <<selected, stats, rendered, fault>>


----------------------------------------------------------------------------
(* main, lines 117-168: the Home page *)

Fields == {"field1", "field2"}

\* float64 subtraction: NaN if either operand is NaN.
Sub(a, b) == IF a = NaN \/ b = NaN THEN NaN ELSE <<a[1] - b[1]>>


\* Variant: the last reading that is a number (df[f].dropna().iloc[-1]).
Latest_LastValid(rows, f) ==
    IF \A i \in 1..Len(rows) : rows[i][f] = NaN THEN NaN
    ELSE rows[CHOOSE i \in 1..Len(rows) :
                /\ rows[i][f] # NaN
                /\ \A j \in (i + 1)..Len(rows) : rows[j][f] = NaN][f]

\* df[f].iloc[-1], lines 123 and 130.
Latest(rows, f) == rows[Len(rows)][f]

\* df[f].iloc[-2], lines 125 and 132; IndexError on a frame of one row.
HasPrevious(rows) == Len(rows) >= 2

Previous(rows, f) == rows[Len(rows) - 1][f]

\* The positions of column f that hold a number.
NotNa(rows, f) == {i \in 1..Len(rows) : rows[i][f] # NaN}

\* df[f].max() and df[f].min(), skipna: NaN when every entry is NaN.
ColMax(rows, f) ==
    IF NotNa(rows, f) = {} THEN NaN
    ELSE <<CHOOSE v \in {rows[i][f][1] : i \in NotNa(rows, f)} :
                \A i \in NotNa(rows, f) : rows[i][f][1] <= v>>

ColMin(rows, f) ==
    IF NotNa(rows, f) = {} THEN NaN
    ELSE <<CHOOSE v \in {rows[i][f][1] : i \in NotNa(rows, f)} :
                \A i \in NotNa(rows, f) : rows[i][f][1] >= v>>

\* Variant of idxmax: the last occurrence of the maximum.
IdxMax_Last(rows, f) ==
    CHOOSE i \in {k \in 1..Len(rows) : rows[k][f] # NaN} :
        /\ \A j \in {k \in 1..Len(rows) : rows[k][f] # NaN} : rows[j][f][1] <= rows[i][f][1]
        /\ \A j \in {k \in 1..Len(rows) : rows[k][f] # NaN} :
                rows[j][f] = rows[i][f] => j <= i

\* df[f].idxmax() and df[f].idxmin(): the label of the first occurrence of the
\* extreme.  The labels of the frame are unique, so df.loc[label] is the row at
\* the position returned here.
IdxMax(rows, f) ==
    CHOOSE i \in NotNa(rows, f) :
        /\ rows[i][f] = ColMax(rows, f)
        /\ \A j \in NotNa(rows, f) : rows[j][f] = ColMax(rows, f) => i <= j

IdxMin(rows, f) ==
    CHOOSE i \in NotNa(rows, f) :
        /\ rows[i][f] = ColMin(rows, f)
        /\ \A j \in NotNa(rows, f) : rows[j][f] = ColMin(rows, f) => i <= j

\* On a column of NaN only, idxmax() returns NaN and df.loc[NaN] raises
\* KeyError (pandas < 3), or idxmax() itself raises ValueError (pandas >= 3).
AllNaFaults == {"KeyError", "ValueError"}

\* (last_timestamp - first_timestamp).days, line 144.
DaysPassed(first, last) == (last - first) \div 24

Put(k, f, v) == <<k, f>> :> v

\* Line 119: if not df.empty ... else (line 168) the "no data" notice.
Branch ==
    /\ pc = "branch"
    /\ IF Len(df) > 0
       THEN /\ pc' = "col1"
            /\ rendered' = rendered
       ELSE /\ pc' = "done"
            /\ rendered' = rendered \cup {<<"nodata", "series">>}
    /\ UNCHANGED <<selected, response, getCount, df, notices, stats, fault>>

\* Lines 123-127 (f = field1) and 130-134 (f = field2): the metric and the
\* chart of one sensor.
Metric(f, here, next) ==
    /\ pc = here
    /\ IF HasPrevious(df)
       THEN /\ stats' = Put("latest", f, Latest(df, f))
                        @@ Put("previousDelta", f, Sub(Latest(df, f), Previous(df, f)))
                        @@ stats
            /\ rendered' = rendered \cup {<<"metric", f>>, <<"chart", f>>}
            /\ fault' = fault
            /\ pc' = next
       ELSE /\ stats' = Put("latest", f, Latest(df, f)) @@ stats
            /\ rendered' = rendered
            /\ fault' = "IndexError"
            /\ pc' = "crashed"
    /\ UNCHANGED <<selected, response, getCount, df, notices>>

Col1 == Metric("field1", "col1", "col2")

Col2 == Metric("field2", "col2", "range")

\* Lines 139-145: first and last record, days between them.
DataRange ==
    /\ pc = "range"
    /\ stats' = Put("firstTimestamp", "series", <<df[1].created_at>>)
                @@ Put("lastTimestamp", "series", <<df[Len(df)].created_at>>)
                @@ Put("elapsedDays", "series",
                       <<DaysPassed(df[1].created_at, df[Len(df)].created_at)>>)
                @@ stats
    /\ rendered' = rendered \cup {<<"range", "series">>}
    /\ pc' = "extremes1"
    /\ UNCHANGED <<selected, response, getCount, df, notices, fault>>

\* Lines 151-157 (f = field1) and 160-166 (f = field2): max and min first,
\* then the rows of idxmax and idxmin, then the two notices.
Extremes(f, here, next) ==
    /\ pc = here
    /\ IF NotNa(df, f) # {}
       THEN /\ stats' = Put("max", f, ColMax(df, f))
                        @@ Put("min", f, ColMin(df, f))
                        @@ Put("maxAt", f, <<df[IdxMax(df, f)].created_at>>)
                        @@ Put("minAt", f, <<df[IdxMin(df, f)].created_at>>)
                        @@ stats
            /\ rendered' = rendered \cup {<<"extremes", f>>}
            /\ fault' = fault
            /\ pc' = next
       ELSE /\ stats' = Put("max", f, ColMax(df, f))
                        @@ Put("min", f, ColMin(df, f))
                        @@ stats
            /\ rendered' = rendered
            /\ fault' \in AllNaFaults
            /\ pc' = "crashed"
    /\ UNCHANGED <<selected, response, getCount, df, notices>>

Extremes1 == Extremes("field1", "extremes1", "extremes2")

Extremes2 == Extremes("field2", "extremes2", "done")

Next ==
    \/ Menu
    \/ RenderStatic
    \/ FetchData
    \/ Branch
    \/ Col1
    \/ Col2
    \/ DataRange
    \/ Extremes1
    \/ Extremes2

Spec == Init /\ [][Next]_vars


----------------------------------------------------------------------------
(* Properties *)

\* fetch_data has returned to main (line 117 is behind).
Fetched == selected = "Home" /\ pc # "fetch"

\* main has ended, normally or by an exception.
Finished == pc \in {"done", "crashed"}

NoDataOnly == rendered \subseteq {<<"nodata", "series">>}

Has(k, f) == <<k, f>> \in DOMAIN stats

Stat(k, f) == stats[<<k, f>>]

Succeeded(r) == ~r.error /\ r.status >= 200 /\ r.status <= 299

HasFeed(r) == r.body.kind = "object" /\ r.body.hasFeeds

\* C1, as stated: whenever the GET failed at transport level or came back
\* with a status outside 200..299, fetch_data returns an empty Series with
\* exactly the Fetch Failure notice, and main computes no statistic, raises
\* nothing and draws only the "no data" notice.
C1_FetchFailureAnyNon2xx ==
    (Fetched /\ (response.error \/ response.status < 200 \/ response.status > 299))
        => /\ df = <<>>
           /\ notices = <<FetchFailureSignal>>
           /\ DOMAIN stats = {}
           /\ fault = "none"
           /\ NoDataOnly
           /\ (Finished => rendered = {<<"nodata", "series">>})

\* C1, amended: the same for a transport failure or a 4xx/5xx status.
C1_FetchFailure ==
    (Fetched /\ (response.error \/ (response.status >= 400 /\ response.status <= 599)))
        => /\ df = <<>>
           /\ notices = <<FetchFailureSignal>>
           /\ DOMAIN stats = {}
           /\ fault = "none"
           /\ NoDataOnly
           /\ (Finished => rendered = {<<"nodata", "series">>})

\* An HTTP 500 ended in the Fetch Failure notice and the "no data" notice only.
C1_Witness ==
    /\ pc = "done"
    /\ selected = "Home"
    /\ response.status = 500
    /\ notices = <<FetchFailureSignal>>
    /\ rendered = {<<"nodata", "series">>}

\* C2: in the Series fetch_data returned, every adjacent pair of Samples has
\* timestamp[i] <= timestamp[i+1], whatever the order of the feed.
C2_SortInvariant ==
    \A i \in 1..(Len(df) - 1) : df[i].created_at <= df[i + 1].created_at

\* A feed that arrived newest first came out oldest first.
C2_Witness ==
    /\ Fetched
    /\ Len(df) = 2
    /\ Len(response.body.feeds) = 2
    /\ ToDatetime(response.body.feeds[1].created_at)
         > ToDatetime(response.body.feeds[2].created_at)
    /\ df[1].created_at < df[2].created_at

\* C3, as stated: on a Series of exactly one Sample main ends without an
\* exception, latest is computed for both sensors and previousDelta is
\* undefined for both.
C3_SingleSampleDelta ==
    (Finished /\ Len(df) = 1)
        => /\ fault = "none"
           /\ \A f \in Fields :
                /\ Has("latest", f)
                /\ (Has("previousDelta", f) => Stat("previousDelta", f) = NaN)

\* C4, as stated: a 2xx answer whose feeds array is empty gives an empty
\* Series and no notice of any kind.
C4_EmptyFeedNoSignal ==
    (Fetched /\ Succeeded(response) /\ HasFeed(response) /\ response.body.feeds = <<>>)
        => /\ df = <<>>
           /\ notices = <<>>

WellTimed(feeds) == \A i \in 1..Len(feeds) : feeds[i].created_at # BadTime

\* C5, as stated: whatever the field1 and field2 values of a feed are
\* (numeric, malformed, null or missing), fetch_data is not aborted: the
\* Series holds exactly the feed's entries, each field converted on its own.
C5_NullTolerance ==
    (Fetched /\ Succeeded(response) /\ HasFeed(response)
        /\ WellTimed(response.body.feeds))
        => /\ Len(df) = Len(response.body.feeds)
           /\ \E p \in Orderings(Len(df)) :
                \A i \in 1..Len(df) :
                    /\ df[i].created_at
                         = ToDatetime(response.body.feeds[p[i]].created_at) + TZ_OFFSET
                    /\ \A f \in Fields :
                        df[i][f] = ToNumeric(response.body.feeds[p[i]][f])

\* C6, as stated: on a Series (of two Samples or more, so that the metrics
\* pass) in which a sensor has no reading at all, main ends without an
\* exception, and max, min, maxAt and minAt of that sensor are undefined.
C6_AllNullExtremes ==
    (Finished /\ Len(df) >= 2 /\ \E f \in Fields : \A i \in 1..Len(df) : df[i][f] = NaN)
        => /\ fault = "none"
           /\ \A f \in Fields :
                (\A i \in 1..Len(df) : df[i][f] = NaN)
                    => \A k \in {"max", "min", "maxAt", "minAt"} :
                            Has(k, f) => Stat(k, f) = NaN

\* C7, as stated: a 2xx answer whose parsed JSON body, of any shape, has no
\* feeds field gives an empty Series and exactly the Schema Failure notice,
\* which differs from the Fetch Failure notice a failed GET gives.
C7_SchemaFailureAnyJson ==
    /\ SchemaFailureSignal # FetchFailureSignal
    /\ (Fetched /\ Succeeded(response)
            /\ response.body.kind \in {"object", "nonobject"} /\ ~response.body.hasFeeds)
          => (df = <<>> /\ notices = <<SchemaFailureSignal>>)
    /\ (Fetched /\ (response.error \/ response.status >= 400))
          => (df = <<>> /\ notices = <<FetchFailureSignal>>)

\* C7, amended: a 2xx answer whose parsed JSON body is an object without a
\* feeds key gives an empty Series and exactly the Schema Failure notice; a
\* failed GET gives exactly the Fetch Failure notice, a different one; no
\* invocation emits more than one notice, and none with a non-empty Series.
C7_SchemaFailure ==
    /\ SchemaFailureSignal # FetchFailureSignal
    /\ (Fetched /\ Succeeded(response)
            /\ response.body.kind = "object" /\ ~response.body.hasFeeds)
          => (df = <<>> /\ notices = <<SchemaFailureSignal>>)
    /\ (Fetched /\ (response.error \/ response.status >= 400))
          => (df = <<>> /\ notices = <<FetchFailureSignal>>)
    /\ Len(notices) <= 1
    /\ (notices # <<>> => df = <<>>)

\* An HTTP 200 whose JSON object has no feeds key ended in the Schema Failure
\* notice and an empty Series.
C7_Witness ==
    /\ Fetched
    /\ response.status = 200
    /\ response.body.kind = "object"
    /\ ~response.body.hasFeeds
    /\ notices = <<SchemaFailureSignal>>
    /\ df = <<>>

\* C8: for each sensor, max (min) is the greatest (least) reading that is a
\* number, and maxAt (minAt) is the timestamp of the first Sample in sort
\* order that holds it, which no other Sample holding it precedes in time.
C8_ExtremesTieBreak ==
    \A f \in Fields :
        (Has("maxAt", f) /\ Has("minAt", f)) =>
            /\ \A i \in 1..Len(df) :
                df[i][f] # NaN =>
                    /\ df[i][f][1] <= Stat("max", f)[1]
                    /\ df[i][f][1] >= Stat("min", f)[1]
            /\ \E i \in 1..Len(df) :
                /\ df[i][f] = Stat("max", f)
                /\ Stat("maxAt", f) = <<df[i].created_at>>
                /\ \A j \in 1..(i - 1) : df[j][f] # Stat("max", f)
            /\ \E i \in 1..Len(df) :
                /\ df[i][f] = Stat("min", f)
                /\ Stat("minAt", f) = <<df[i].created_at>>
                /\ \A j \in 1..(i - 1) : df[j][f] # Stat("min", f)
            /\ \A j \in 1..Len(df) :
                /\ df[j][f] = Stat("max", f) => Stat("maxAt", f)[1] <= df[j].created_at
                /\ df[j][f] = Stat("min", f) => Stat("minAt", f)[1] <= df[j].created_at

\* Two Samples at different times share the maximum of a sensor, and maxAt is
\* the earlier of the two.
C8_Witness ==
    /\ pc = "done"
    /\ \E f \in Fields :
        /\ Has("maxAt", f)
        /\ \E i, j \in 1..Len(df) :
            /\ df[i].created_at < df[j].created_at
            /\ df[i][f] = Stat("max", f)
            /\ df[j][f] = Stat("max", f)
            /\ Stat("maxAt", f) = <<df[i].created_at>>

C10_LatestAndDelta ==
    \A f \in Fields :
        Has("previousDelta", f) =>
            /\ Len(df) >= 2
            /\ Stat("latest", f) = df[Len(df)][f]
            /\ Stat("previousDelta", f) =
                 (IF df[Len(df)][f] = NaN \/ df[Len(df) - 1][f] = NaN
                  THEN NaN
                  ELSE <<df[Len(df)][f][1] - df[Len(df) - 1][f][1]>>)

\* The last Sample has no reading, an earlier one has, and latest is NaN.
C10_Witness ==
    \E f \in Fields :
        /\ Has("previousDelta", f)
        /\ df[Len(df)][f] = NaN
        /\ df[Len(df) - 1][f] # NaN
        /\ Stat("latest", f) = NaN
        /\ Stat("previousDelta", f) = NaN

=============================================================================
